---------------------------- MODULE Spec2Model ----------------------------
(***************************************************************************)
(* A model of the Redis-compatible server of this repository: the token    *)
(* scanner (tokenizer.rs), the value parser (parser.rs), the keyspace      *)
(* engine (data_core.rs) and the connection tasks that feed it (main.rs),  *)
(* the handshake of a replica (initialize_slaves) and the connection tasks *)
(* that share the engine behind a Mutex (client_connection.rs).            *)
(*                                                                         *)
(* Text is a sequence of one-character strings; "\r" and "\n" are the two  *)
(* characters of the segment separator.                                    *)
(***************************************************************************)
EXTENDS Integers, Sequences, FiniteSets, TLC

\* ------------------------------------------------------------------ text

CR == "\r"
LF == "\n"

Digits == <<"0", "1", "2", "3", "4", "5", "6", "7", "8", "9">>

UpperCase == <<"A", "B", "C", "D", "E", "F", "G", "H", "I", "J", "K", "L", "M",
               "N", "O", "P", "Q", "R", "S", "T", "U", "V", "W", "X", "Y", "Z">>

LowerCase == <<"a", "b", "c", "d", "e", "f", "g", "h", "i", "j", "k", "l", "m",
               "n", "o", "p", "q", "r", "s", "t", "u", "v", "w", "x", "y", "z">>

is_ascii_digit(c) == \E i \in 1..10 : Digits[i] = c

DigitValue(c) == (CHOOSE i \in 1..10 : Digits[i] = c) - 1

\* char::to_lowercase on one character: only upper-case letters change.
LowerChar(c) ==
    IF \E i \in 1..26 : UpperCase[i] = c
    THEN LowerCase[CHOOSE i \in 1..26 : UpperCase[i] = c]
    ELSE c

\* str::to_lowercase, with the identity as the bug of a missing call.
to_lowercase_Identity(s) == s

to_lowercase(s) == [i \in 1..Len(s) |-> LowerChar(s[i])]

\* i64::to_string: decimal digits, a leading '-' for a negative number.
RECURSIVE NatToText(_)
NatToText(n) ==
    IF n < 10 THEN <<Digits[n + 1]>>
    ELSE NatToText(n \div 10) \o <<Digits[(n % 10) + 1]>>

I64ToText(n) == IF n < 0 THEN <<"-">> \o NatToText(-n) ELSE NatToText(n)

\* The value of a non-empty run of digits (str::parse on digits only).
RECURSIVE DigitsToNat(_)
DigitsToNat(s) ==
    IF s = <<>> THEN 0
    ELSE DigitsToNat(SubSeq(s, 1, Len(s) - 1)) * 10 + DigitValue(s[Len(s)])

AllDigits(s) == s # <<>> /\ \A i \in 1..Len(s) : is_ascii_digit(s[i])

\* str::parse::<i64>: an optional sign, then at least one digit.
ParseI64(s) ==
    IF AllDigits(s) THEN [ok |-> TRUE, n |-> DigitsToNat(s)]
    ELSE IF s # <<>> /\ s[1] = "-" /\ AllDigits(Tail(s))
         THEN [ok |-> TRUE, n |-> 0 - DigitsToNat(Tail(s))]
    ELSE IF s # <<>> /\ s[1] = "+" /\ AllDigits(Tail(s))
         THEN [ok |-> TRUE, n |-> DigitsToNat(Tail(s))]
    ELSE [ok |-> FALSE, n |-> 0]

RECURSIVE Flatten(_)
Flatten(ss) == IF ss = <<>> THEN <<>> ELSE Head(ss) \o Flatten(Tail(ss))

\* -------------------------------------------------------------- literals

Str_PING == <<"P", "I", "N", "G">>
Str_PONG == <<"P", "O", "N", "G">>
Str_OK == <<"O", "K">>
Str_ping == <<"p", "i", "n", "g">>
Str_echo == <<"e", "c", "h", "o">>
Str_set == <<"s", "e", "t">>
Str_get == <<"g", "e", "t">>
Str_command == <<"c", "o", "m", "m", "a", "n", "d">>
Str_info == <<"i", "n", "f", "o">>
Str_replconf == <<"r", "e", "p", "l", "c", "o", "n", "f">>
Str_foo == <<"f", "o", "o">>
Str_bar == <<"b", "a", "r">>
Str_baz == <<"b", "a", "z">>
Str_hello == <<"h", "e", "l", "l", "o">>
Str_missing == <<"m", "i", "s", "s", "i", "n", "g">>
Str_PX == <<"P", "X">>
Str_EX == <<"E", "X">>
Str_del == <<"d", "e", "l">>
Str_master == <<"m", "a", "s", "t", "e", "r">>
Str_slave == <<"s", "l", "a", "v", "e">>
Str_minus1 == <<"-", "1">>
Str_REPLCONF == <<"R", "E", "P", "L", "C", "O", "N", "F">>
Str_listening_port ==
    <<"l", "i", "s", "t", "e", "n", "i", "n", "g", "-", "p", "o", "r", "t">>
Str_capa == <<"c", "a", "p", "a">>
Str_psync2 == <<"p", "s", "y", "n", "c", "2">>
Str_PSYNC == <<"P", "S", "Y", "N", "C">>
Str_psync == <<"p", "s", "y", "n", "c">>
Str_FULLRESYNC == <<"F", "U", "L", "L", "R", "E", "S", "Y", "N", "C">>
Str_question == <<"?">>
InfoHeader ==
    <<"#", " ", "R", "e", "p", "l", "i", "c", "a", "t", "i", "o", "n", LF,
    "r", "o", "l", "e", ":">>
InfoConnectedSlaves ==
    <<LF, "c", "o", "n", "n", "e", "c", "t", "e", "d", "_", "s", "l", "a",
    "v", "e", "s", ":">>
InfoMasterReplid ==
    <<LF, "m", "a", "s", "t", "e", "r", "_", "r", "e", "p", "l", "i", "d",
    ":">>
InfoMasterReplOffset ==
    <<LF, "m", "a", "s", "t", "e", "r", "_", "r", "e", "p", "l", "_", "o",
    "f", "f", "s", "e", "t", ":">>
InfoSecondReplOffset ==
    <<LF, "s", "e", "c", "o", "n", "d", "_", "r", "e", "p", "l", "_", "o",
    "f", "f", "s", "e", "t", ":">>
InfoBacklogActive ==
    <<LF, "r", "e", "p", "l", "_", "b", "a", "c", "k", "l", "o", "g", "_",
    "a", "c", "t", "i", "v", "e", ":">>
InfoBacklogSize ==
    <<LF, "r", "e", "p", "l", "_", "b", "a", "c", "k", "l", "o", "g", "_",
    "s", "i", "z", "e", ":">>
InfoBacklogFirstByte ==
    <<LF, "r", "e", "p", "l", "_", "b", "a", "c", "k", "l", "o", "g", "_",
    "f", "i", "r", "s", "t", "_", "b", "y", "t", "e", "_", "o", "f", "f",
    "s", "e", "t", ":">>
InfoBacklogHistlen ==
    <<LF, "r", "e", "p", "l", "_", "b", "a", "c", "k", "l", "o", "g", "_",
    "h", "i", "s", "t", "e", "n", ":">>
WireOK == <<"+", "O", "K", CR, LF>>
WireBar == <<"$", "3", CR, LF, "b", "a", "r", CR, LF>>
WireNull == <<"$", "-", "1", CR, LF>>
WirePong == <<"+", "P", "O", "N", "G", CR, LF>>
WireHello == <<"$", "5", CR, LF, "h", "e", "l", "l", "o", CR, LF>>
WireEmptyArray == <<"*", "0", CR, LF>>
ReplidA ==
    <<"8", "x", "7", "L", "m", "2", "Q", "p", "0", "R", "t", "5", "V", "w",
    "9", "Y", "z", "3", "B", "c", "6", "D", "f", "1", "G", "h", "4", "J",
    "k", "8", "N", "n", "2", "S", "s", "7", "U", "u", "0", "X">>
ReplidB ==
    <<"X", "0", "u", "U", "7", "s", "S", "2", "n", "N", "8", "k", "J", "4",
    "h", "G", "1", "f", "D", "6", "c", "B", "3", "z", "Y", "9", "w", "V",
    "5", "t", "R", "0", "p", "Q", "2", "m", "L", "7", "x", "8">>


\* ---------------------------------------------------------------- tokens

Sigils == {"+", "-", ":", "$", "*", "_", "#", ",", "(", "!", "=", "%", "~", ">"}

SigilName(c) ==
    CASE c = "+" -> "Plus"
      [] c = "-" -> "Hyphen"
      [] c = ":" -> "Colon"
      [] c = "$" -> "Dollar"
      [] c = "*" -> "Asterisk"
      [] c = "_" -> "Underscore"
      [] c = "#" -> "PoundSign"
      [] c = "," -> "Comma"
      [] c = "(" -> "LeftParenthesis"
      [] c = "!" -> "Exclamation"
      [] c = "=" -> "Equals"
      [] c = "%" -> "Percentage"
      [] c = "~" -> "Tilda"
      [] c = ">" -> "GreaterThan"

SigilOf(type) == CHOOSE c \in Sigils : SigilName(c) = type

\* enum Token: every token is a record of the same three fields.
Token(type) == [type |-> type, s |-> <<>>, n |-> 0]
StringToken(s) == [type |-> "String", s |-> s, n |-> 0]
NumberToken(n) == [type |-> "Number", s |-> <<>>, n |-> n]
Separator == Token("Separator")

is_separator(t) == t.type = "Separator"
is_number(t) == t.type = "Number"
is_plus(t) == t.type = "Plus"
is_dollar(t) == t.type = "Dollar"
is_asterisk(t) == t.type = "Asterisk"

\* Token::to_string: Some for String and Number, None for the rest.
TokenToString(t) ==
    CASE t.type = "String" -> [some |-> TRUE, s |-> t.s]
      [] t.type = "Number" -> [some |-> TRUE, s |-> I64ToText(t.n)]
      [] OTHER -> [some |-> FALSE, s |-> <<>>]

\* Token::to_usize: None for a negative number.
TokenToUsize(t) ==
    IF t.type = "Number" /\ t.n >= 0 THEN [some |-> TRUE, n |-> t.n]
    ELSE [some |-> FALSE, n |-> 0]

\* The characters one token stands for (serialize_tokens' match arms).
TokenText(t) ==
    CASE t.type = "Number" -> I64ToText(t.n)
      [] t.type = "String" -> t.s
      [] t.type = "Separator" -> <<CR, LF>>
      [] OTHER -> <<SigilOf(t.type)>>

\* serialize_tokens: an error for an empty vector, else the tokens' text.
serialize_tokens(tokens) ==
    IF Len(tokens) < 1 THEN [ok |-> FALSE, text |-> <<>>]
    ELSE [ok |-> TRUE,
          text |-> Flatten([i \in 1..Len(tokens) |-> TokenText(tokens[i])])]

\* The end of the greedy run of digits that starts at i.
RECURSIVE DigitRunEnd(_, _)
DigitRunEnd(input, i) ==
    IF i + 1 <= Len(input) /\ is_ascii_digit(input[i + 1])
    THEN DigitRunEnd(input, i + 1)
    ELSE i

\* The first position k > i of a "\r" that is followed by "\n"; 0 if none.
NextCRLF(input, k) ==
    LET found == {j \in k..(Len(input) - 1) : input[j] = CR /\ input[j + 1] = LF}
    IN  IF found = {} THEN 0
        ELSE CHOOSE j \in found : \A other \in found : j <= other

\* parse_resp_tokens_from_str from position i on.
RECURSIVE ScanFrom(_, _)
ScanFrom(input, i) ==
    IF i > Len(input) THEN <<>>
    ELSE LET ch == input[i] IN
         IF ch \in Sigils
         THEN <<Token(SigilName(ch))>> \o ScanFrom(input, i + 1)
         ELSE IF is_ascii_digit(ch)
         THEN LET j == DigitRunEnd(input, i)
              IN  <<NumberToken(DigitsToNat(SubSeq(input, i, j)))>>
                      \o ScanFrom(input, j + 1)
         ELSE IF ch = CR
         THEN IF i + 1 <= Len(input) /\ input[i + 1] = LF
              THEN <<Separator>> \o ScanFrom(input, i + 2)
              ELSE <<StringToken(<<CR>>)>> \o ScanFrom(input, i + 1)
         ELSE LET k == NextCRLF(input, i + 1)
              IN  IF k = 0 THEN <<>>
                  ELSE <<StringToken(SubSeq(input, i, k - 1)), Separator>>
                           \o ScanFrom(input, k + 2)

parse_resp_tokens_from_str(input) == ScanFrom(input, 1)

\* ---------------------------------------------------------------- values

\* enum ParserValue: every value is a record of the same three fields.
SimpleString(s) == [kind |-> "SimpleString", s |-> s, arr |-> <<>>]
BulkString(s) == [kind |-> "BulkString", s |-> s, arr |-> <<>>]
Array(arr) == [kind |-> "Array", s |-> <<>>, arr |-> arr]
NullBulkString == [kind |-> "NullBulkString", s |-> <<>>, arr |-> <<>>]

is_string(v) == v.kind \in {"SimpleString", "BulkString"}
\* is_array, with the bug of taking every value for an array.
is_array_AnyValue(v) == TRUE

is_array(v) == v.kind = "Array"

\* ParserValue::to_tokens (the element tokens of an array follow its header).
RECURSIVE to_tokens(_)
to_tokens(v) ==
    CASE v.kind = "SimpleString" -> <<Token("Plus"), StringToken(v.s), Separator>>
      [] v.kind = "BulkString" ->
            <<Token("Dollar"), NumberToken(Len(v.s)), Separator,
              StringToken(v.s), Separator>>
      [] v.kind = "Array" ->
            <<Token("Asterisk"), NumberToken(Len(v.arr)), Separator>>
                \o Flatten([i \in 1..Len(v.arr) |-> to_tokens(v.arr[i])])
      [] v.kind = "NullBulkString" ->
            <<Token("Dollar"), NumberToken(-1), Separator>>

\* ---------------------------------------------------------------- parser

\* The outcome of one parsing function: Ok(value) with the iterator's next
\* position, Err, or a panic (an expect on a missing token).
ParseOk(v, pos) == [tag |-> "ok", val |-> v, pos |-> pos]
ParseErr == [tag |-> "err", val |-> NullBulkString, pos |-> 0]
ParsePanic == [tag |-> "panic", val |-> NullBulkString, pos |-> 0]

\* tokens_to_simple_string, the iterator standing at pos.
tokens_to_simple_string(tokens, pos) ==
    IF ~(pos <= Len(tokens) /\ is_plus(tokens[pos])) THEN ParseErr
    ELSE IF pos + 1 > Len(tokens) THEN ParsePanic
    ELSE IF pos + 2 > Len(tokens) THEN ParsePanic
    ELSE IF ~is_separator(tokens[pos + 2]) THEN ParseErr
    ELSE IF ~TokenToString(tokens[pos + 1]).some THEN ParsePanic
    ELSE ParseOk(SimpleString(TokenToString(tokens[pos + 1]).s), pos + 3)

\* The position of the first separator at or after pos, Len + 1 if none
\* (the while loop that collects the payload tokens).
RECURSIVE PayloadEnd(_, _)
PayloadEnd(tokens, pos) ==
    IF pos <= Len(tokens) /\ ~is_separator(tokens[pos])
    THEN PayloadEnd(tokens, pos + 1)
    ELSE pos

\* The payload rebuilt from its tokens (the match of lines 161-209).
RebuildPayload(str_tokens) ==
    Flatten([i \in 1..Len(str_tokens) |->
                IF is_separator(str_tokens[i]) THEN <<>>
                ELSE TokenText(str_tokens[i])])

\* The length check of tokens_to_bulk_string, and the bug of a missing one.
LengthAgrees_Unchecked(s, size) == TRUE

LengthAgrees(s, size) == Len(s) = size

\* tokens_to_bulk_string, the iterator standing at pos.
tokens_to_bulk_string(tokens, pos) ==
    IF ~(pos <= Len(tokens) /\ is_dollar(tokens[pos])) THEN ParseErr
    ELSE IF pos + 1 > Len(tokens) THEN ParsePanic
    ELSE IF ~is_number(tokens[pos + 1]) THEN ParseErr
    ELSE IF pos + 2 > Len(tokens) THEN ParsePanic
    ELSE IF ~is_separator(tokens[pos + 2]) THEN ParseErr
    ELSE LET end == PayloadEnd(tokens, pos + 3)
             s == RebuildPayload(SubSeq(tokens, pos + 3, end - 1))
             size == TokenToUsize(tokens[pos + 1])
         IN  IF end > Len(tokens) THEN ParsePanic
             ELSE IF ~size.some THEN ParsePanic
             ELSE IF ~LengthAgrees(s, size.n) THEN ParseErr
             ELSE ParseOk(BulkString(s), end + 1)

\* The check of the declared length of an array, and the bugs of refusing
\* the length 0 with the negative ones and of refusing none.
NegativeLength_OrZero(length) == length <= 0

NegativeLength_Unchecked(length) == FALSE

NegativeLength(length) == length < 0

\* tokens_to_array, the iterator standing at pos; ArrayElements is its for
\* loop with `remaining` elements still to parse.
RECURSIVE tokens_to_array(_, _), ArrayElements(_, _, _, _)
ArrayElements(tokens, pos, remaining, values) ==
    IF remaining = 0 THEN ParseOk(Array(values), pos)
    ELSE IF pos > Len(tokens) THEN ParsePanic
    ELSE LET first == tokens[pos]
             r == CASE is_plus(first) -> tokens_to_simple_string(tokens, pos)
                    [] is_dollar(first) -> tokens_to_bulk_string(tokens, pos)
                    [] is_asterisk(first) -> tokens_to_array(tokens, pos)
                    [] OTHER -> ParseErr
         IN  IF r.tag # "ok" THEN r
             ELSE ArrayElements(tokens, r.pos, remaining - 1, Append(values, r.val))

tokens_to_array(tokens, pos) ==
    IF ~(pos <= Len(tokens) /\ is_asterisk(tokens[pos])) THEN ParseErr
    ELSE IF pos + 1 > Len(tokens) THEN ParsePanic
    ELSE IF ~is_number(tokens[pos + 1]) THEN ParseErr
    ELSE LET length == tokens[pos + 1].n IN
         IF NegativeLength(length) THEN ParseErr
         ELSE IF length = 0 THEN ParseOk(Array(<<>>), pos + 2)
         ELSE IF ~(pos + 2 <= Len(tokens) /\ is_separator(tokens[pos + 2]))
              THEN ParseErr
         ELSE ArrayElements(tokens, pos + 3, length, <<>>)

\* parse_tokens: Some(value), None, or a panic of one of the functions above.
ParseSome(v) == [tag |-> "some", val |-> v]
ParseNone == [tag |-> "none", val |-> NullBulkString]
ParseAbort == [tag |-> "panic", val |-> NullBulkString]

parse_tokens(tokens) ==
    IF tokens = <<>> THEN ParseNone
    ELSE LET first == tokens[1]
             r == CASE is_plus(first) -> tokens_to_simple_string(tokens, 1)
                    [] is_dollar(first) -> tokens_to_bulk_string(tokens, 1)
                    [] is_asterisk(first) -> tokens_to_array(tokens, 1)
                    [] OTHER -> ParseErr
         IN  CASE r.tag = "ok" -> ParseSome(r.val)
               [] r.tag = "err" -> ParseNone
               [] r.tag = "panic" -> ParseAbort

\* ------------------------------------------------------- keyspace engine

\* Bound of the clock: Utc::now() reads a whole number of nanoseconds, at
\* most MaxNanos after the start of the server.
MaxNanos == 2

\* TimeDelta::milliseconds, as timestamp_nanos_opt counts it.
NanosPerMilli == 1000000

\* The readings Utc::now() can return, and those not before reading t.
ClockValues == 0..MaxNanos

Readings(t) == {u \in ClockValues : u >= t}

\* Option<i64>
None == [some |-> FALSE, val |-> 0]
Some(n) == [some |-> TRUE, val |-> n]

\* DataValue::new
DataValue(parser_value) ==
    [parser_value |-> parser_value, expiry_in_nanoseconds |-> None]

\* DataValue::set_expiry, `now` being its reading of the clock; before it
\* the bug of counting the milliseconds from the epoch, not from now.
set_expiry_FromEpoch(data_value, milliseconds, now) ==
    [data_value EXCEPT
        !.expiry_in_nanoseconds = Some(milliseconds * NanosPerMilli)]

set_expiry(data_value, milliseconds, now) ==
    [data_value EXCEPT
        !.expiry_in_nanoseconds = Some(now + milliseconds * NanosPerMilli)]

\* DataValue::has_expired, and the bug of expiring entries that have no
\* expiry.
has_expired_IgnoresNone(data_value, now) ==
    now > data_value.expiry_in_nanoseconds.val

has_expired(data_value, now) ==
    IF ~data_value.expiry_in_nanoseconds.some THEN FALSE
    ELSE now > data_value.expiry_in_nanoseconds.val

\* HashMap<String, DataValue>: a function from the keys present.
EmptyDataSet == [k \in {} |-> DataValue(NullBulkString)]

\* HashMap::insert, and the bug of an overwrite that keeps the old expiry.
Insert_KeepsExpiry(ds, key, data_value) ==
    [k \in DOMAIN ds \cup {key} |->
        IF k # key THEN ds[k]
        ELSE IF key \in DOMAIN ds
             THEN [data_value EXCEPT !.expiry_in_nanoseconds =
                                        ds[key].expiry_in_nanoseconds]
             ELSE data_value]

Insert(ds, key, data_value) ==
    [k \in DOMAIN ds \cup {key} |->
        IF k = key THEN data_value ELSE ds[k]]

\* HashMap::remove
Remove(ds, key) == [k \in DOMAIN ds \ {key} |-> ds[k]]

\* remove_expired_values: retain calls has_expired once per entry, each call
\* reading the clock; nows[k] is the reading taken for the entry of k.
remove_expired_values(ds, nows) ==
    [k \in {j \in DOMAIN ds : ~has_expired(ds[j], nows[j])} |->
        ds[k]]

\* The text of the INFO reply (the format! of the info arm); the server of
\* main.rs that serves clients has the fields of DataCore::new.
InfoText(role, replid) ==
    InfoHeader \o role
        \o InfoConnectedSlaves \o I64ToText(0)
        \o InfoMasterReplid \o replid
        \o InfoMasterReplOffset \o I64ToText(0)
        \o InfoSecondReplOffset \o I64ToText(-1)
        \o InfoBacklogActive \o I64ToText(0)
        \o InfoBacklogSize \o I64ToText(1048576)
        \o InfoBacklogFirstByte \o I64ToText(0)
        \o InfoBacklogHistlen \o I64ToText(0)

\* What one arm of process_command's match does: the response it sends (if
\* it sends one), the keyspace it leaves, and how it ends: "continue" (the
\* sweep follows), "return" (process_command returns) or "panic".
Outcome(status, response, ds) ==
    [status |-> status, sent |-> TRUE, response |-> response,
     data_set |-> ds]

Panics(ds) ==
    [status |-> "panic", sent |-> FALSE, response |-> <<>>,
     data_set |-> ds]

\* The ping arm, and the bug of answering with a bulk string.
PingArm_AsBulk(ds) ==
    Outcome("continue", to_tokens(BulkString(Str_PONG)), ds)

PingArm(ds) ==
    Outcome("continue", to_tokens(SimpleString(Str_PONG)), ds)

\* The echo arm, with the bug of echoing the first argument alone.
EchoArm_FirstOnly(ds, arguments) ==
    Outcome("continue",
            IF Len(arguments) >= 2 /\ is_string(arguments[2])
            THEN to_tokens(BulkString(arguments[2].s))
            ELSE <<>>,
            ds)

EchoArm(ds, arguments) ==
    Outcome("continue",
            Flatten([i \in 1..(Len(arguments) - 1) |->
                        IF is_string(arguments[i + 1])
                        THEN to_tokens(BulkString(arguments[i + 1].s))
                        ELSE <<>>]),
            ds)

\* The key check of the set arm, and the bug of a missing check.
SetKeyIsString_Unchecked(key) == TRUE

SetKeyIsString(key) == is_string(key)

SetArm(ds, arguments, now) ==
    IF Len(arguments) < 3 THEN Panics(ds)
    ELSE LET key == arguments[2]
             value == arguments[3]
             has_option == Len(arguments) >= 4 /\ is_string(arguments[4])
             has_len == has_option /\ Len(arguments) >= 5
                            /\ is_string(arguments[5])
             len == ParseI64(arguments[5].s)
         IN  IF ~SetKeyIsString(key)
             THEN Outcome("return", to_tokens(NullBulkString), ds)
             ELSE IF has_len /\ ~len.ok THEN Panics(ds)
             ELSE Outcome("continue", to_tokens(SimpleString(Str_OK)),
                          Insert(ds, key.s,
                                 IF has_len
                                 THEN set_expiry(DataValue(value), len.n, now)
                                 ELSE DataValue(value)))

\* The response of the get arm for an entry that has not expired, and the
\* bug of answering with a bulk string whatever the stored variant is.
StoredValueTokens_AsBulk(data_value) ==
    to_tokens(BulkString(data_value.parser_value.s))

StoredValueTokens(data_value) == to_tokens(data_value.parser_value)

GetArm(ds, arguments, now) ==
    IF Len(arguments) < 2 THEN Panics(ds)
    ELSE LET key == arguments[2] IN
         IF ~is_string(key)
         THEN Outcome("return", to_tokens(NullBulkString), ds)
         ELSE IF key.s \notin DOMAIN ds
         THEN Outcome("return", to_tokens(NullBulkString), ds)
         ELSE IF has_expired(ds[key.s], now)
         THEN Outcome("return", to_tokens(NullBulkString),
                      Remove(ds, key.s))
         ELSE Outcome("continue", StoredValueTokens(ds[key.s]), ds)

CommandArm(ds) ==
    Outcome("continue", to_tokens(SimpleString(<<>>)), ds)

InfoArm(ds, replid) ==
    Outcome("return", to_tokens(BulkString(InfoText(Str_master, replid))),
            ds)

ReplconfArm(ds) ==
    Outcome("continue", to_tokens(SimpleString(Str_OK)), ds)

\* The arm for every other verb, todo!(): a panic of the task. With it the
\* bugs of skipping the command and of answering it with an error.
ErrorTokens == <<Token("Hyphen"), StringToken(<<"E", "R", "R">>), Separator>>

UnknownVerbArm_Skipped(ds) ==
    [status |-> "continue", sent |-> FALSE, response |-> <<>>,
     data_set |-> ds]

UnknownVerbArm_ErrorReply(ds) == Outcome("continue", ErrorTokens, ds)

UnknownVerbArm(ds) == Panics(ds)

\* The body of process_command's loop up to the end of the match, for the
\* command `arguments`, `now` being the arm's reading of the clock.
Arm(ds, arguments, now, replid) ==
    IF arguments = <<>> THEN Panics(ds)
    ELSE IF ~is_string(arguments[1]) THEN Panics(ds)
    ELSE LET verb == to_lowercase(arguments[1].s) IN
         CASE verb = Str_ping -> PingArm(ds)
           [] verb = Str_echo -> EchoArm(ds, arguments)
           [] verb = Str_set -> SetArm(ds, arguments, now)
           [] verb = Str_get -> GetArm(ds, arguments, now)
           [] verb = Str_command -> CommandArm(ds)
           [] verb = Str_info -> InfoArm(ds, replid)
           [] verb = Str_replconf -> ReplconfArm(ds)
           [] OTHER -> UnknownVerbArm(ds)

\* ------------------------------------------------------------- the server

\* The connections a run follows.
NumConns == 3
Conns == 1..NumConns

\* The candidates for the random 40 characters of DataCore::new.
ReplIds == {ReplidA, ReplidB}

VARIABLES
    data_set,       \* DataCore.data_set (as the task left it, once it has ended)
    master_replid,  \* DataCore.master_replid
    core,           \* the task of process_command: running, returned, panicked
    rx,             \* the commands in the mpsc channel, oldest first
    conn,           \* per connection, the task of process_request
    oneshot,        \* per connection, the oneshot channel of its command
    clock,          \* the latest reading of Utc::now()
    last,           \* the command process_command took last, and its outcome
    script,         \* per connection, the requests its client still sends
    codec,          \* the value a codec function is applied to, and its result
    handshake,      \* the startup of a replica: initialize_slaves and after
    guard,          \* the connection holding the Mutex of the DataCore, or 0
    stalled         \* the connections whose client has stopped reading

vars == <<data_set, master_replid, core, rx, conn, oneshot, clock, last,
          script, codec, handshake, guard, stalled>>

replica_vars == <<handshake>>
lock_vars == <<guard, stalled>>

server_vars == <<data_set, master_replid, core, rx, conn, oneshot, clock, last>>

\* What a client sends (RESP as a client encodes it).
RespSimple(s) == <<"+">> \o s \o <<CR, LF>>
RespBulk(s) == <<"$">> \o NatToText(Len(s)) \o <<CR, LF>> \o s \o <<CR, LF>>
RespArray(elems) ==
    <<"*">> \o NatToText(Len(elems)) \o <<CR, LF>> \o Flatten(elems)

UpperChar(c) ==
    IF \E i \in 1..26 : LowerCase[i] = c
    THEN UpperCase[CHOOSE i \in 1..26 : LowerCase[i] = c]
    ELSE c

\* Three spellings of a verb: lower case, upper case, alternating.
UpperSpelling(verb) == [i \in 1..Len(verb) |-> UpperChar(verb[i])]

Spellings(verb) ==
    {verb,
     UpperSpelling(verb),
     [i \in 1..Len(verb) |-> IF i % 2 = 1 THEN UpperChar(verb[i]) ELSE verb[i]]}

Request(verb, args) == RespArray(<<RespBulk(verb)>> \o args)

ArrayKey == RespArray(<<RespBulk(Str_foo)>>)

\* The arguments a client sends with each verb of the command table: the
\* usual ones, and the further argument lists it uses.
UsualArgs(verb) ==
    CASE verb = Str_ping -> <<>>
      [] verb = Str_echo -> <<RespBulk(Str_hello)>>
      [] verb = Str_set -> <<RespBulk(Str_foo), RespBulk(Str_bar)>>
      [] verb = Str_get -> <<RespBulk(Str_foo)>>
      [] verb = Str_command -> <<>>
      [] verb = Str_info -> <<>>
      [] verb = Str_replconf -> <<RespBulk(Str_foo)>>

OtherArgs(verb) ==
    CASE verb = Str_set ->
            {<<RespBulk(Str_foo), RespBulk(Str_bar),
               RespBulk(Str_PX), RespBulk(<<"0">>)>>,
             <<RespBulk(Str_foo), RespSimple(Str_baz),
               RespBulk(Str_PX), RespBulk(<<"1">>)>>,
             <<ArrayKey, RespBulk(Str_bar)>>,
             <<RespBulk(Str_foo), RespBulk(Str_bar), RespBulk(Str_PX)>>,
             <<RespBulk(Str_foo), RespBulk(Str_bar),
               RespBulk(Str_EX), RespBulk(<<"1">>)>>}
      [] verb = Str_get -> {<<RespBulk(Str_missing)>>, <<ArrayKey>>}
      [] verb = Str_echo -> {<<>>, <<RespBulk(Str_hello), RespBulk(Str_foo)>>}
      [] OTHER -> {}

CommandTable ==
    {Str_ping, Str_echo, Str_set, Str_get, Str_command, Str_info, Str_replconf}

\* The requests a client of the general specification may send: every verb
\* of the table in three spellings with its usual arguments and in upper
\* case with the others, a verb that is not in the table, a request that is
\* no array and one whose bulk length is wrong.
Menu ==
    UNION {{Request(spelling, UsualArgs(verb)) : spelling \in Spellings(verb)}
              \cup {Request(UpperSpelling(verb), args) : args \in OtherArgs(verb)} :
           verb \in CommandTable}
      \cup {Request(Str_del, <<RespBulk(Str_foo)>>),
            RespSimple(Str_PING),
            <<"$", "5", CR, LF>> \o Str_foo \o <<CR, LF>>}

Idle == [state |-> "idle", tokens |-> <<>>]
Pending == [state |-> "pending", tokens |-> <<>>]
Dropped == [state |-> "dropped", tokens |-> <<>>]
Sent(tokens) == [state |-> "sent", tokens |-> tokens]

\* A server started without --replicaof has no handshake to make.
NoHandshake ==
    [step |-> "master", sent |-> <<>>, response |-> -1, broke |-> <<>>]

NoCommand ==
    [valid |-> FALSE, conn |-> 0, arguments |-> <<>>, now |-> 0,
     pre |-> EmptyDataSet, arm |-> EmptyDataSet,
     status |-> "none", sent |-> FALSE, response |-> <<>>]

InitServer ==
    /\ data_set = EmptyDataSet
    /\ master_replid \in ReplIds
    /\ core = "running"
    /\ rx = <<>>
    /\ conn = [c \in Conns |->
                  [pc |-> "read", request |-> <<>>, written |-> <<>>]]
    /\ oneshot = [c \in Conns |-> Idle]
    /\ clock = 0
    /\ last = NoCommand
    /\ handshake = NoHandshake
    /\ guard = 0
    /\ stalled = {}

\* process_request, from socket.read returning the bytes of `request` to the
\* await of core_tx.send: the request is scanned and parsed (a failed parse
\* panics the task), a value that is no array shuts the socket down, and an
\* array is sent to the core as a Command with a fresh oneshot channel (the
\* send fails, and the task panics, once the receiver is gone).
Receive(c, request) ==
    /\ conn[c].pc = "read"
    /\ LET tokens == parse_resp_tokens_from_str(request)
           parser_value == parse_tokens(tokens)
           ends(pc) == [conn EXCEPT ![c] =
                           [pc |-> pc, request |-> request, written |-> <<>>]]
       IN  IF parser_value.tag # "some"
           THEN conn' = ends("panicked") /\ UNCHANGED <<rx, oneshot>>
           ELSE IF ~is_array(parser_value.val)
           THEN conn' = ends("shutdown") /\ UNCHANGED <<rx, oneshot>>
           ELSE IF core # "running"
           THEN conn' = ends("panicked") /\ UNCHANGED <<rx, oneshot>>
           ELSE /\ conn' = ends("await")
                /\ rx' = Append(rx, [conn |-> c,
                                     arguments |-> parser_value.val.arr])
                /\ oneshot' = [oneshot EXCEPT ![c] = Pending]
    /\ UNCHANGED <<data_set, master_replid, core, clock, last, codec,
                   replica_vars, lock_vars>>

Max(S) == CHOOSE x \in S : \A y \in S : y <= x

\* The oneshot channels after the core task has ended: the senders of the
\* commands still queued are dropped with the channel.
DropQueued(channels, queue) ==
    [c \in Conns |->
        IF \E i \in 1..Len(queue) : queue[i].conn = c THEN Dropped
        ELSE channels[c]]

\* One turn of process_command's loop: the command at the head of the
\* channel is received, its arm runs and sends its response, and the sweep
\* follows unless the arm returned or panicked; a return or a panic ends the
\* task, which drops the receiver and the commands still queued.
ProcessCommand ==
    /\ core = "running"
    /\ rx # <<>>
    /\ LET command == Head(rx) IN
       \E now \in Readings(clock) :
         LET out == Arm(data_set, command.arguments, now, master_replid)
             answered == [oneshot EXCEPT ![command.conn] =
                             IF out.sent THEN Sent(out.response) ELSE Dropped]
         IN  /\ last' = [valid |-> TRUE, conn |-> command.conn,
                         arguments |-> command.arguments, now |-> now,
                         pre |-> data_set, arm |-> out.data_set,
                         status |-> out.status, sent |-> out.sent,
                         response |-> out.response]
             /\ IF out.status = "continue"
                THEN \E nows \in [DOMAIN out.data_set -> Readings(now)] :
                        /\ data_set' = remove_expired_values(out.data_set, nows)
                        /\ clock' = Max({now} \cup {nows[k] : k \in DOMAIN nows})
                        /\ core' = core
                        /\ rx' = Tail(rx)
                        /\ oneshot' = answered
                ELSE /\ data_set' = out.data_set
                     /\ clock' = now
                     /\ core' = IF out.status = "return" THEN "returned"
                                ELSE "panicked"
                     /\ rx' = <<>>
                     /\ oneshot' = DropQueued(answered, Tail(rx))
    /\ UNCHANGED <<master_replid, conn, script, codec, replica_vars, lock_vars>>

\* process_request, from the response arriving on the oneshot channel to the
\* flush: the tokens are serialized (no tokens: a panic) and written.
WriteResponse(c) ==
    /\ conn[c].pc = "await"
    /\ oneshot[c].state = "sent"
    /\ LET response == serialize_tokens(oneshot[c].tokens) IN
       conn' = [conn EXCEPT ![c] =
                   IF response.ok
                   THEN [@ EXCEPT !.pc = "read", !.written = response.text]
                   ELSE [@ EXCEPT !.pc = "panicked"]]
    /\ oneshot' = [oneshot EXCEPT ![c] = Idle]
    /\ UNCHANGED <<data_set, master_replid, core, rx, clock, last, script, codec,
                   replica_vars, lock_vars>>

\* process_request when the sender of its oneshot channel was dropped: the
\* expect on the response panics the task.
ResponseDropped(c) ==
    /\ conn[c].pc = "await"
    /\ oneshot[c].state = "dropped"
    /\ conn' = [conn EXCEPT ![c].pc = "panicked"]
    /\ oneshot' = [oneshot EXCEPT ![c] = Idle]
    /\ UNCHANGED <<data_set, master_replid, core, rx, clock, last, script, codec,
                   replica_vars, lock_vars>>

NoCodec == [stage |-> "none"]

\* The general specification: one client sends any request of the menu, one
\* after the other.
Init ==
    /\ InitServer
    /\ script = [c \in Conns |-> <<>>]
    /\ codec = NoCodec

Next ==
    \/ \E request \in Menu : Receive(1, request) /\ UNCHANGED script
    \/ ProcessCommand
    \/ \E c \in Conns : WriteResponse(c)
    \/ \E c \in Conns : ResponseDropped(c)

Spec == Init /\ [][Next]_vars




\* ------------------------------------------------- three clients at once

\* Two clients set the same key, one with an expiry and one without, while
\* a third reads it twice.
SetBarPX0 ==
    Request(Str_set, <<RespBulk(Str_foo), RespBulk(Str_bar),
                       RespBulk(Str_PX), RespBulk(<<"0">>)>>)
SetBaz == Request(Str_set, <<RespBulk(Str_foo), RespBulk(Str_baz)>>)
GetFoo == Request(Str_get, <<RespBulk(Str_foo)>>)

Scripts ==
    [c \in Conns |->
        CASE c = 1 -> <<SetBarPX0>>
          [] c = 2 -> <<SetBaz>>
          [] c = 3 -> <<GetFoo, GetFoo>>
          [] OTHER -> <<>>]

InitConc ==
    /\ InitServer
    /\ script = Scripts
    /\ codec = NoCodec

\* The client of connection c sends its next request.
Send(c) ==
    /\ script[c] # <<>>
    /\ Receive(c, Head(script[c]))
    /\ script' = [script EXCEPT ![c] = Tail(@)]

NextConc ==
    \/ \E c \in Conns : Send(c)
    \/ ProcessCommand
    \/ \E c \in Conns : WriteResponse(c)
    \/ \E c \in Conns : ResponseDropped(c)

SpecConc == InitConc /\ [][NextConc]_vars

\* The entries the two SETs write: bar expiring zero milliseconds after the
\* reading t of its SET, and baz with no expiry.
EntryOfSetBar(t) ==
    [parser_value |-> BulkString(Str_bar),
     expiry_in_nanoseconds |-> Some(t + 0 * NanosPerMilli)]

EntryOfSetBaz ==
    [parser_value |-> BulkString(Str_baz), expiry_in_nanoseconds |-> None]

\* C1: with two concurrent SETs of one key and a concurrent GET, the entry
\* stored under the key is always the whole entry of one of the two SETs,
\* and the GET is answered with the value held before both, the first
\* value or the second.
C1_NoMixedEntry ==
    /\ \A k \in DOMAIN data_set :
          /\ k = Str_foo
          /\ \/ data_set[k] = EntryOfSetBaz
             \/ \E t \in ClockValues : data_set[k] = EntryOfSetBar(t)
    /\ conn[3].written \in
          {<<>>, WireNull, WireBar,
           serialize_tokens(to_tokens(BulkString(Str_baz))).text}

C1_GetBetweenTheSets ==
    /\ conn[3].written = WireBar
    /\ conn[3].pc = "read"
    /\ script[3] = <<>>
    /\ Str_foo \in DOMAIN data_set
    /\ data_set[Str_foo] = EntryOfSetBaz

\* ------------------------------------------------- one bad connection

\* The first connection sends one request the server cannot serve, while
\* two others send commands it can: a bulk string whose length is wrong
\* (no value parses), a value that is no array, an array of no elements,
\* an array whose first element is an array, and a verb that is not in the
\* command table.
ParseFailure == <<"$", "5", CR, LF>> \o Str_foo \o <<CR, LF>>
NonArrayRequests == {RespSimple(Str_PING), RespBulk(Str_foo)}
EmptyArrayRequest == RespArray(<<>>)
ArrayFirstRequest == RespArray(<<ArrayKey>>)
DelFoo == Request(Str_del, <<RespBulk(Str_foo)>>)

BadRequests ==
    {ParseFailure, EmptyArrayRequest, ArrayFirstRequest} \cup NonArrayRequests

SetBar == Request(Str_set, <<RespBulk(Str_foo), RespBulk(Str_bar)>>)
Ping == Request(Str_ping, <<>>)
EchoHello == Request(Str_echo, <<RespBulk(Str_hello)>>)

BadScripts(first) ==
    [c \in Conns |->
        CASE c = 1 -> <<first>>
          [] c = 2 -> <<SetBar, Ping>>
          [] c = 3 -> <<EchoHello>>
          [] OTHER -> <<>>]

InitBad ==
    /\ InitServer
    /\ \E first \in BadRequests \cup {DelFoo} : script = BadScripts(first)
    /\ codec = NoCodec

SpecBad == InitBad /\ [][NextConc]_vars

\* ------------------------------------------------------------ the replica

\* The port of --port, the sizes of the read buffers of initialize_slaves
\* and the reply lengths its loops wait for.
ListenPort == 6380
BuffLen == 8
PsyncBuffLen == 58
PingReplyLen == 7
ReplconfReplyLen == 5
PsyncReplyMin == 56

\* The four waits of initialize_slaves, named by the request written
\* before each.
WaitSteps == <<"ping", "listening-port", "capa", "psync">>

HandshakeRequest(step) ==
    CASE step = "ping" -> Array(<<SimpleString(Str_PING)>>)
      [] step = "listening-port" ->
            Array(<<SimpleString(Str_REPLCONF),
                    SimpleString(Str_listening_port),
                    SimpleString(NatToText(ListenPort))>>)
      [] step = "capa" ->
            Array(<<SimpleString(Str_REPLCONF), SimpleString(Str_capa),
                    SimpleString(Str_psync2)>>)
      [] step = "psync" ->
            Array(<<SimpleString(Str_PSYNC), SimpleString(Str_question),
                    SimpleString(Str_minus1)>>)

BuffLenOf(step) == IF step = "psync" THEN PsyncBuffLen ELSE BuffLen

\* The condition that breaks the read loop of a step, for a read that
\* returned `response` bytes; with it the bug of a REPLCONF wait that any
\* reply of the length or more ends.
WaitOver_AtLeast(step, response) ==
    CASE step = "ping" -> response = PingReplyLen
      [] step \in {"listening-port", "capa"} -> response >= ReplconfReplyLen
      [] step = "psync" -> response >= PsyncReplyMin

WaitOver(step, response) ==
    CASE step = "ping" -> response = PingReplyLen
      [] step \in {"listening-port", "capa"} -> response = ReplconfReplyLen
      [] step = "psync" -> response >= PsyncReplyMin

\* The step that follows a wait, and the bug of leaving one out.
NextStep_SkipsCapa(step) ==
    CASE step = "ping" -> "listening-port"
      [] step = "listening-port" -> "psync"
      [] step = "capa" -> "psync"
      [] step = "psync" -> "done"

NextStep(step) ==
    CASE step = "ping" -> "listening-port"
      [] step = "listening-port" -> "capa"
      [] step = "capa" -> "psync"
      [] step = "psync" -> "done"

\* write_all and flush of the request of `step`, the read loop of the step
\* being entered with nothing read.
Written(h, step) ==
    [h EXCEPT !.step = step,
              !.sent = Append(@, serialize_tokens(
                                    to_tokens(HandshakeRequest(step))).text),
              !.response = -1]

Aborted(h) == [h EXCEPT !.step = "aborted"]

replica_unchanged ==
    UNCHANGED <<data_set, master_replid, rx, oneshot, clock, last, script,
                codec, lock_vars>>

\* initialize_slaves up to its first read: connect, writable, and the write
\* of PING; an error of any of them is returned, and main's expect panics.
ConnectToMaster ==
    /\ handshake.step = "connect"
    /\ \E ok \in BOOLEAN :
          handshake' = IF ok THEN Written(handshake, "ping")
                       ELSE Aborted(handshake)
    /\ UNCHANGED <<core, conn>>
    /\ replica_unchanged

\* One turn of the read loop of a step: the read returns `response` bytes;
\* the loop goes on unless the step's condition holds, and then the next
\* request is written (an error of the write is returned) or, after PSYNC,
\* the reply is split at its spaces (a reply that is no UTF-8, or one with
\* no second part, panics); either failure ends the startup.
ReadReply ==
    /\ \E i \in 1..Len(WaitSteps) : handshake.step = WaitSteps[i]
    /\ \E response \in 0..BuffLenOf(handshake.step), ok \in BOOLEAN :
          IF ~WaitOver(handshake.step, response)
          THEN handshake' = [handshake EXCEPT !.response = response]
          ELSE LET broken == [handshake EXCEPT !.response = response,
                                               !.broke = Append(@, response)]
                   next == NextStep(handshake.step)
               IN  handshake' =
                       IF ~ok THEN Aborted(broken)
                       ELSE IF next = "done"
                            THEN [broken EXCEPT !.step = "done"]
                            ELSE Written(broken, next)
    /\ UNCHANGED <<core, conn>>
    /\ replica_unchanged

\* A read of the loop returns an error: initialize_slaves returns it.
ReadError ==
    /\ \E i \in 1..Len(WaitSteps) : handshake.step = WaitSteps[i]
    /\ handshake' = Aborted(handshake)
    /\ UNCHANGED <<core, conn>>
    /\ replica_unchanged

\* main after initialize_slaves has returned Ok: the task of
\* process_command is spawned and the listener bound.
StartServing ==
    /\ handshake.step = "done"
    /\ handshake' = [handshake EXCEPT !.step = "serving"]
    /\ core' = "running"
    /\ UNCHANGED conn
    /\ replica_unchanged

\* The accept loop is reached once the listener is bound; with it the bug
\* of a listener that accepts from the start.
Listening_FromStart(h) == TRUE

Listening(h) == h.step = "serving"

\* listener.accept and the spawn of process_request for the connection.
Accept(c) ==
    /\ Listening(handshake)
    /\ conn[c].pc = "unaccepted"
    /\ conn' = [conn EXCEPT ![c].pc = "read"]
    /\ UNCHANGED <<core, handshake>>
    /\ replica_unchanged

ReplicaScripts ==
    [c \in Conns |->
        CASE c = 1 -> <<Ping>>
          [] c = 2 -> <<GetFoo>>
          [] OTHER -> <<>>]

InitReplica ==
    /\ data_set = EmptyDataSet
    /\ master_replid \in ReplIds
    /\ core = "unspawned"
    /\ rx = <<>>
    /\ conn = [c \in Conns |->
                  [pc |-> "unaccepted", request |-> <<>>, written |-> <<>>]]
    /\ oneshot = [c \in Conns |-> Idle]
    /\ clock = 0
    /\ last = NoCommand
    /\ handshake = [NoHandshake EXCEPT !.step = "connect"]
    /\ guard = 0
    /\ stalled = {}
    /\ script = ReplicaScripts
    /\ codec = NoCodec

NextReplica ==
    \/ ConnectToMaster
    \/ ReadReply
    \/ ReadError
    \/ StartServing
    \/ \E c \in Conns : Accept(c)
    \/ \E c \in Conns : Send(c)
    \/ ProcessCommand
    \/ \E c \in Conns : WriteResponse(c)
    \/ \E c \in Conns : ResponseDropped(c)

SpecReplica == InitReplica /\ [][NextReplica]_vars

\* The four requests as a client of the master would encode them.
ExpectedRequests ==
    <<RespArray(<<RespSimple(Str_PING)>>),
      RespArray(<<RespSimple(Str_REPLCONF), RespSimple(Str_listening_port),
                  RespSimple(NatToText(ListenPort))>>),
      RespArray(<<RespSimple(Str_REPLCONF), RespSimple(Str_capa),
                  RespSimple(Str_psync2)>>),
      RespArray(<<RespSimple(Str_PSYNC), RespSimple(Str_question),
                  RespSimple(Str_minus1)>>)>>

\* C18: the handshake is strictly sequential: what was written to the
\* master is always a beginning of PING, REPLCONF listening-port, REPLCONF
\* capa psync2, PSYNC ? -1, each once and in this order, and a request is
\* written only by a step whose read satisfied the wait of the request
\* before it.
C18_HandshakeInOrder ==
    /\ [](/\ Len(handshake.sent) <= Len(ExpectedRequests)
          /\ handshake.sent = SubSeq(ExpectedRequests, 1, Len(handshake.sent))
          /\ Len(handshake.sent) <= Len(handshake.broke) + 1)
    /\ [][Len(handshake'.sent) # Len(handshake.sent)
            => /\ Len(handshake'.sent) = Len(handshake.sent) + 1
               /\ Len(handshake.sent) >= 1
                     => /\ Len(handshake'.broke) = Len(handshake.sent)
                        /\ WaitOver(WaitSteps[Len(handshake.sent)],
                                    handshake'.broke[Len(handshake.sent)])]_vars

C18_AllFourSent ==
    /\ handshake.step = "done"
    /\ handshake.sent = ExpectedRequests
    /\ Len(handshake.broke) = 4

\* A step of a read loop in which the read returned a length, and the
\* length it returned.
ReadHappened ==
    /\ \E i \in 1..Len(WaitSteps) : handshake.step = WaitSteps[i]
    /\ \/ handshake'.response # handshake.response
       \/ Len(handshake'.broke) > Len(handshake.broke)

ReadLength ==
    IF Len(handshake'.broke) > Len(handshake.broke)
    THEN handshake'.broke[Len(handshake'.broke)]
    ELSE handshake'.response

LeftTheWait == handshake'.step # handshake.step

\* C19 as stated: a read ends the wait after PING exactly when it returned
\* 7 bytes, the wait after each REPLCONF exactly when it returned 5 bytes
\* or more, and the wait after PSYNC exactly when it returned 56 or more.
C19_ReplconfAtLeastFive ==
    [][ReadHappened
        => (LeftTheWait <=>
              CASE handshake.step = "ping" -> ReadLength = 7
                [] handshake.step \in {"listening-port", "capa"} ->
                      ReadLength >= 5
                [] handshake.step = "psync" -> ReadLength >= 56)]_vars

\* C19, amended: a read ends the wait after PING exactly when it returned
\* 7 bytes, the wait after each REPLCONF exactly when it returned 5 bytes
\* (a longer reply does not end it), and the wait after PSYNC exactly
\* when it returned 56 bytes or more.
C19_ReplconfExactlyFive ==
    [][ReadHappened
        => (LeftTheWait <=>
              CASE handshake.step = "ping" -> ReadLength = 7
                [] handshake.step \in {"listening-port", "capa"} ->
                      ReadLength = 5
                [] handshake.step = "psync" -> ReadLength >= 56)]_vars

C19_LongReplconfReplyWaits ==
    /\ handshake.step = "capa"
    /\ handshake.response = 6
    /\ Len(handshake.sent) = 3

\* C20: a replica accepts a client connection, and executes a command,
\* only after the handshake has completed (four requests written, four
\* waits over); once an error has aborted the startup nothing is written
\* to the master again and no connection is ever accepted.
C20_ServesAfterHandshake ==
    /\ []((last.valid \/ \E c \in Conns : conn[c].pc # "unaccepted")
            => /\ handshake.step = "serving"
               /\ Len(handshake.sent) = 4
               /\ Len(handshake.broke) = 4
               /\ handshake.broke[4] >= 56)
    /\ [](handshake.step = "aborted"
            => /\ \A c \in Conns : conn[c].pc = "unaccepted"
               /\ core = "unspawned")
    /\ [][handshake.step = "aborted" => handshake' = handshake]_vars

C20_AbortedMidway ==
    /\ handshake.step = "aborted"
    /\ Len(handshake.sent) = 3
    /\ handshake.response = 4

\* The verb and the arguments of the four requests of the handshake.
HandshakeTexts ==
    <<<<Str_PING>>,
      <<Str_REPLCONF, Str_listening_port, NatToText(ListenPort)>>,
      <<Str_REPLCONF, Str_capa, Str_psync2>>,
      <<Str_PSYNC, Str_question, Str_minus1>>>>

\* What a master running this program makes of the bytes of a request:
\* parse_resp_tokens_from_str, then parse_tokens.
MasterParses(request) == parse_tokens(parse_resp_tokens_from_str(request))

\* C33: every request the replica has written during the handshake is
\* scanned and parsed by this program as an Array whose elements are
\* strings with the texts of the verb and the arguments of that request.
C33_MasterParsesHandshake ==
    \A i \in 1..Len(handshake.sent) :
        LET parsed == MasterParses(handshake.sent[i]) IN
        /\ parsed.tag = "some"
        /\ is_array(parsed.val)
        /\ Len(parsed.val.arr) = Len(HandshakeTexts[i])
        /\ \A k \in 1..Len(HandshakeTexts[i]) :
               /\ is_string(parsed.val.arr[k])
               /\ parsed.val.arr[k].s = HandshakeTexts[i][k]

\* C34: a read that returns 0 bytes, the master having closed the
\* connection, ends the wait of its step: the handshake has completed or
\* the startup is aborted, and the loop does not read again.
C34_ClosedConnectionEndsWait ==
    handshake.response = 0
        => \A i \in 1..Len(WaitSteps) : handshake.step # WaitSteps[i]

\* ------------------------------------------- connections under the Mutex

\* handle_requests of client_connection.rs: every connection task shares
\* one DataCore behind a Mutex and calls it itself. `guard` is the task
\* holding the MutexGuard; a client in `stalled` has stopped reading, so
\* that a write to its socket does not complete.

\* Command::is_psync: the verb of the command is PSYNC, in any case.
is_psync(arguments) ==
    /\ arguments # <<>>
    /\ is_string(arguments[1])
    /\ to_lowercase(arguments[1].s) = Str_psync

\* The PSYNC row of the command table: the arguments are ignored, the
\* keyspace is left alone and the response is +FULLRESYNC <replid> <offset>,
\* the offset being the master_repl_offset 0 that INFO reports.
PsyncArm(ds, replid) ==
    Outcome("continue",
            to_tokens(SimpleString(Str_FULLRESYNC \o <<" ">> \o replid
                                       \o <<" ">> \o I64ToText(0))),
            ds)

\* DataCore::to_rdb_bytes: the fixed placeholder snapshot, framed as a bulk
\* payload ($<length>\r\n, then the bytes, with nothing after them).
Snapshot == <<"R", "E", "D", "I", "S">>

to_rdb_bytes == <<"$">> \o NatToText(Len(Snapshot)) \o <<CR, LF>> \o Snapshot

\* DataCore::process_command(command) as handle_requests calls it: the
\* response tokens of the command and the keyspace it leaves, the sweep
\* included; a verb outside the command table panics.
process_command(ds, arguments, now, replid) ==
    LET out == IF is_psync(arguments) THEN PsyncArm(ds, replid)
               ELSE Arm(ds, arguments, now, replid) IN
    [out EXCEPT !.data_set =
        IF out.status = "panic" THEN out.data_set
        ELSE remove_expired_values(out.data_set,
                                   [k \in DOMAIN out.data_set |-> now])]

Psync == Request(Str_PSYNC, <<RespBulk(Str_question), RespBulk(Str_minus1)>>)

LockScripts ==
    [c \in Conns |->
        CASE c = 1 -> <<Ping, EchoHello>>
          [] c = 2 -> <<Psync, SetBar>>
          [] c = 3 -> <<GetFoo>>
          [] OTHER -> <<>>]

\* The value handle_requests gets for each request of the scripts, through
\* parse_resp_tokens_from_str and parse_tokens.
Parsed ==
    [request \in UNION {{LockScripts[c][i] : i \in 1..Len(LockScripts[c])} :
                        c \in Conns} |->
        parse_tokens(parse_resp_tokens_from_str(request))]

\* The clients that may stop reading.
MayStall == {1}

InitLock ==
    /\ data_set = EmptyDataSet
    /\ master_replid \in ReplIds
    /\ core = "shared"
    /\ rx = <<>>
    /\ conn = [c \in Conns |->
                  [pc |-> "read", request |-> <<>>, written |-> <<>>,
                   arguments |-> <<>>, response |-> <<>>,
                   is_psync |-> FALSE, wire |-> <<>>]]
    /\ oneshot = [c \in Conns |-> Idle]
    /\ clock = 0
    /\ last = NoCommand
    /\ handshake = NoHandshake
    /\ guard = 0
    /\ stalled = {}
    /\ script = LockScripts
    /\ codec = NoCodec

lock_unchanged ==
    UNCHANGED <<master_replid, core, rx, oneshot, last, codec, replica_vars>>

\* From the read of a request to the call of lock(): the request is
\* scanned and parsed (a failure panics the task) and a value that is no
\* array shuts the socket down.
ReadRequest(c) ==
    /\ conn[c].pc = "read"
    /\ script[c] # <<>>
    /\ \E parser_value \in {Parsed[Head(script[c])]} :
          conn' = [conn EXCEPT ![c] =
                      [@ EXCEPT !.request = Head(script[c]),
                                !.written = <<>>,
                                !.arguments =
                                    IF parser_value.tag = "some"
                                    THEN parser_value.val.arr ELSE <<>>,
                                !.is_psync =
                                    /\ parser_value.tag = "some"
                                    /\ is_array(parser_value.val)
                                    /\ is_psync(parser_value.val.arr),
                                !.pc = IF parser_value.tag # "some"
                                       THEN "panicked"
                                       ELSE IF ~is_array(parser_value.val)
                                       THEN "shutdown"
                                       ELSE "lock"]]
    /\ script' = [script EXCEPT ![c] = Tail(@)]
    /\ UNCHANGED <<data_set, clock, guard, stalled>>
    /\ lock_unchanged

\* lock().await returns the guard once no other task holds it.
Lock(c) ==
    /\ conn[c].pc = "lock"
    /\ guard = 0
    /\ guard' = c
    /\ conn' = [conn EXCEPT ![c].pc = "locked"]
    /\ UNCHANGED <<data_set, clock, script, stalled>>
    /\ lock_unchanged

\* process_command on the locked DataCore, and serialize_tokens of its
\* response; a panic of either unwinds the task, which drops the guard.
ProcessLocked(c) ==
    /\ conn[c].pc = "locked"
    /\ guard = c
    /\ \E now \in Readings(clock) :
       \E out \in {process_command(data_set, conn[c].arguments, now,
                                   master_replid)} :
       \E response \in {serialize_tokens(out.response)} :
             /\ data_set' = out.data_set
             /\ clock' = now
             /\ IF out.status = "panic" \/ ~response.ok
                THEN /\ conn' = [conn EXCEPT ![c].pc = "panicked"]
                     /\ guard' = 0
                ELSE /\ conn' = [conn EXCEPT ![c].pc = "write",
                                             ![c].response = response.text]
                     /\ guard' = guard
    /\ UNCHANGED <<script, stalled>>
    /\ lock_unchanged

\* `if is_psync` after the write of the response: the snapshot is written
\* before the flush; before it, the bug of never writing it.
AfterWriteAll_NoSnapshot(c) == "flush"

AfterWriteAll(c) == IF conn[c].is_psync THEN "rdb" ELSE "flush"

\* One write_all on the socket of a connection: the bytes, what they are
\* and the command they were written for.
Chunk(what, arguments, bytes) ==
    [what |-> what, arguments |-> arguments, bytes |-> bytes]

\* write_all of the response, the guard still in scope: it completes only
\* while the client reads.
WriteAll(c) ==
    /\ conn[c].pc = "write"
    /\ c \notin stalled
    /\ conn' = [conn EXCEPT
                   ![c].pc = AfterWriteAll(c),
                   ![c].written = conn[c].response,
                   ![c].wire = Append(@, Chunk("response", conn[c].arguments,
                                               conn[c].response))]
    /\ UNCHANGED <<data_set, clock, script, guard, stalled>>
    /\ lock_unchanged

\* After a PSYNC: to_rdb_bytes of the locked DataCore and the write_all of
\* these bytes.
WriteRdb(c) ==
    /\ conn[c].pc = "rdb"
    /\ guard = c
    /\ c \notin stalled
    /\ conn' = [conn EXCEPT
                   ![c].pc = "flush",
                   ![c].written = @ \o to_rdb_bytes,
                   ![c].wire = Append(@, Chunk("snapshot", conn[c].arguments,
                                               to_rdb_bytes))]
    /\ UNCHANGED <<data_set, clock, script, guard, stalled>>
    /\ lock_unchanged

\* flush, and the end of the arm: the guard goes out of scope.
Flush(c) ==
    /\ conn[c].pc = "flush"
    /\ c \notin stalled
    /\ conn' = [conn EXCEPT ![c].pc = "read"]
    /\ guard' = IF guard = c THEN 0 ELSE guard
    /\ UNCHANGED <<data_set, clock, script, stalled>>
    /\ lock_unchanged

\* The client of connection c stops reading its socket, for good.
StopReading(c) ==
    /\ c \in MayStall
    /\ c \notin stalled
    /\ stalled' = stalled \cup {c}
    /\ UNCHANGED <<data_set, clock, script, guard, conn>>
    /\ lock_unchanged

NextLock ==
    \/ \E c \in Conns : ReadRequest(c)
    \/ \E c \in Conns : Lock(c)
    \/ \E c \in Conns : ProcessLocked(c)
    \/ \E c \in Conns : WriteAll(c)
    \/ \E c \in Conns : WriteRdb(c)
    \/ \E c \in Conns : Flush(c)
    \/ \E c \in Conns : StopReading(c)

\* Every task that can take a step takes it (the runtime schedules every
\* ready task) and the Mutex hands the guard to every waiter in turn (a
\* tokio Mutex is first in, first out); a client is free to stop reading.
FairLock ==
    \A c \in Conns :
        /\ WF_vars(ReadRequest(c))
        /\ SF_vars(Lock(c))
        /\ WF_vars(ProcessLocked(c))
        /\ WF_vars(WriteAll(c))
        /\ WF_vars(WriteRdb(c))
        /\ WF_vars(Flush(c))

SpecLock == InitLock /\ [][NextLock]_vars /\ FairLock

\* C12: a client that stops reading holds up only its own connection:
\* every command another connection has read and parsed is executed and
\* answered in the end.
C12_OthersAnswered ==
    \A d \in Conns \ MayStall :
        (conn[d].pc = "lock") ~> (conn[d].pc = "read" /\ conn[d].written # <<>>)

\* C14: the guard is held for process_command only: no task holds it
\* while it writes to its socket or flushes it.
C14_NoSocketWriteUnderLock ==
    \A c \in Conns : guard = c => conn[c].pc \notin {"write", "flush"}

\* ---------------------------------------------- properties of the server

\* The command `arguments` has `verb` as its first argument, in any of the
\* spellings a client uses.
IsCommand(arguments, verb) ==
    /\ arguments # <<>>
    /\ is_string(arguments[1])
    /\ arguments[1].s \in Spellings(verb)

\* The command has the string-typed key k as its second argument.
HasKey(arguments, k) ==
    /\ Len(arguments) >= 2
    /\ is_string(arguments[2])
    /\ arguments[2].s = k

\* process_command has just taken a command off the channel.
CommandTaken == Len(rx') < Len(rx)

\* The client of the general specification has its response to `request`.
Answered(request) ==
    /\ conn[1].pc = "read"
    /\ conn[1].request = request
    /\ conn[1].written # <<>>

AnsweredVerb(verb, args) ==
    \E spelling \in Spellings(verb) : Answered(Request(spelling, args))

NullTokens == to_tokens(NullBulkString)

\* C2: the serialized responses are exactly +OK\r\n for SET foo bar,
\* $3\r\nbar\r\n for a GET foo that follows it, $-1\r\n for GET of a key
\* that was never set, +PONG\r\n for PING and $5\r\nhello\r\n for ECHO hello.
C2_SerializedResponses ==
    /\ AnsweredVerb(Str_set, UsualArgs(Str_set)) => conn[1].written = WireOK
    /\ (AnsweredVerb(Str_get, UsualArgs(Str_get))
            /\ Str_foo \in DOMAIN last.pre
            /\ last.pre[Str_foo] = DataValue(BulkString(Str_bar)))
         => conn[1].written = WireBar
    /\ (AnsweredVerb(Str_get, UsualArgs(Str_get)) /\ last.pre = EmptyDataSet)
         => conn[1].written = WireNull
    /\ AnsweredVerb(Str_get, <<RespBulk(Str_missing)>>)
         => conn[1].written = WireNull
    /\ AnsweredVerb(Str_ping, <<>>) => conn[1].written = WirePong
    /\ AnsweredVerb(Str_echo, UsualArgs(Str_echo)) => conn[1].written = WireHello

C2_GetAfterSetAnswered ==
    /\ Answered(Request(Str_get, UsualArgs(Str_get)))
    /\ Str_foo \in DOMAIN last.pre
    /\ last.pre[Str_foo] = DataValue(BulkString(Str_bar))
    /\ conn[1].written = WireBar

IsSetPX0(arguments) ==
    /\ IsCommand(arguments, Str_set)
    /\ Len(arguments) = 5
    /\ is_string(arguments[2])
    /\ arguments[4] = BulkString(Str_PX)
    /\ arguments[5] = BulkString(<<"0">>)

\* C3: after SET k v PX 0, a GET k taken as the next command returns the
\* null bulk string, whatever the two readings of the clock are.
C3_ImmediateGetIsNull ==
    [][(/\ CommandTaken
        /\ last.valid
        /\ last.status = "continue"
        /\ IsSetPX0(last.arguments)
        /\ IsCommand(last'.arguments, Str_get)
        /\ HasKey(last'.arguments, last.arguments[2].s))
            => last'.response = NullTokens]_vars

\* What holds of an entry that has no expiry: it stays as it is through
\* every step that is not a SET of its key, and a GET of its key that
\* process_command takes returns its value.
NoExpiryNeverRemoved ==
    [][\A k \in DOMAIN data_set :
          (/\ data_set[k].expiry_in_nanoseconds = None
           /\ ~(/\ CommandTaken
                /\ IsCommand(last'.arguments, Str_set)
                /\ HasKey(last'.arguments, k)))
             => /\ k \in DOMAIN data_set'
                /\ data_set'[k] = data_set[k]
                /\ (/\ CommandTaken
                    /\ IsCommand(last'.arguments, Str_get)
                    /\ HasKey(last'.arguments, k))
                      => last'.response = to_tokens(data_set[k].parser_value)]_vars

\* C4: once SET k v with no expiry option has stored its entry, a GET k
\* returns v, whatever time has passed and whatever commands other than a
\* SET of k came in between.
C4_GetReturnsValue ==
    (/\ \E spelling \in Spellings(Str_get) :
            conn[1].request = Request(spelling, UsualArgs(Str_get))
     /\ conn[1].pc \in {"read", "panicked"}
     /\ Str_foo \in DOMAIN data_set
     /\ data_set[Str_foo].expiry_in_nanoseconds = None)
        => conn[1].written =
              serialize_tokens(to_tokens(data_set[Str_foo].parser_value)).text

\* C8: a command whose verb is spelled in upper or mixed case has the
\* response and the resulting keyspace of the lower-case spelling.
C8_CaseInsensitive ==
    \A verb \in CommandTable :
        (last.valid /\ IsCommand(last.arguments, verb))
            => LET lower == Arm(last.pre,
                                <<[last.arguments[1] EXCEPT !.s = verb]>>
                                    \o Tail(last.arguments),
                                last.now, master_replid)
               IN  /\ last.status = lower.status
                   /\ last.sent = lower.sent
                   /\ last.response = lower.response
                   /\ last.arm = lower.data_set

C8_MixedCaseSetStored ==
    /\ last.valid
    /\ last.arguments # <<>>
    /\ last.arguments[1].s = <<"S", "e", "T">>
    /\ last.status = "continue"
    /\ Str_foo \in DOMAIN last.arm
    /\ last.response = to_tokens(SimpleString(Str_OK))

\* C9: GET k returns the null bulk string when the key is not string-typed,
\* absent or expired, the expired entry being gone when the response is
\* sent; otherwise it returns the stored value, which is the value the SET
\* of k was given, and leaves the entry in place.
C9_GetSemantics ==
    /\ (last.valid /\ IsCommand(last.arguments, Str_get)
            /\ Len(last.arguments) >= 2)
         => LET key == last.arguments[2] IN
            IF ~is_string(key) \/ key.s \notin DOMAIN last.pre
            THEN last.response = NullTokens /\ last.arm = last.pre
            ELSE LET entry == last.pre[key.s] IN
                 IF /\ entry.expiry_in_nanoseconds.some
                    /\ last.now > entry.expiry_in_nanoseconds.val
                 THEN /\ last.response = NullTokens
                      /\ last.arm = Remove(last.pre, key.s)
                      /\ oneshot[last.conn].state = "sent"
                            => key.s \notin DOMAIN data_set
                 ELSE /\ last.response = to_tokens(entry.parser_value)
                      /\ last.arm = last.pre
    /\ (last.valid /\ IsCommand(last.arguments, Str_set)
            /\ last.status = "continue")
         => /\ last.arguments[2].s \in DOMAIN last.arm
            /\ last.arm[last.arguments[2].s].parser_value = last.arguments[3]

C9_ExpiredEntryRemoved ==
    /\ last.valid
    /\ IsCommand(last.arguments, Str_get)
    /\ HasKey(last.arguments, Str_foo)
    /\ Str_foo \in DOMAIN last.pre
    /\ last.response = NullTokens
    /\ oneshot[last.conn].state = "sent"
    /\ Str_foo \notin DOMAIN data_set

\* C10: a SET whose key is not string-typed returns the null bulk string
\* and leaves the keyspace as it was.
C10_SetNonStringKey ==
    (last.valid /\ IsCommand(last.arguments, Str_set)
        /\ Len(last.arguments) >= 3 /\ ~is_string(last.arguments[2]))
        => /\ last.sent
           /\ last.response = NullTokens
           /\ last.arm = last.pre
           /\ data_set = last.pre

C10_SetArrayKeyOnFilledKeyspace ==
    /\ last.valid
    /\ IsCommand(last.arguments, Str_set)
    /\ Len(last.arguments) >= 3
    /\ last.arguments[2].kind = "Array"
    /\ last.pre # EmptyDataSet
    /\ last.response = NullTokens

\* C11: the sweep runs after every command process_command has processed,
\* whatever path the command took: once the command is done the keyspace
\* holds no entry that had expired by the reading the command took.
C11_SweptAfterEveryCommand ==
    (last.valid /\ last.status \in {"continue", "return"})
        => \A k \in DOMAIN data_set : ~has_expired(data_set[k], last.now)

\* C13: a bad request (one that fails to parse, a value that is no array,
\* an array of no elements, an array whose first element is no string)
\* ends only the connection that sent it: the keyspace is as it was, and
\* no other connection's task is ended, so that its commands are executed
\* and answered.
C13_BadRequestIsolated ==
    conn[1].request \in BadRequests
        => /\ \A d \in Conns \ {1} : conn[d].pc # "panicked"
           /\ (last.valid /\ last.conn = 1) => data_set = last.pre

\* The command has a verb that is not in the command table.
UnknownVerb(arguments) ==
    /\ arguments # <<>>
    /\ is_string(arguments[1])
    /\ to_lowercase(arguments[1].s) \notin CommandTable

Fatal == last.valid /\ UnknownVerb(last.arguments)

\* C15: a command whose verb is not in the command table is fatal: no
\* response is sent or written for it, and once it was taken no command of
\* any connection is queued, executed or answered (the only responses
\* still written are those of commands executed before it).
C15_UnknownVerbFatal ==
    /\ [](Fatal => /\ core = "panicked"
                   /\ ~last.sent
                   /\ rx = <<>>
                   /\ oneshot[last.conn].state # "sent"
                   /\ conn[last.conn].written = <<>>)
    /\ [][Fatal => /\ last' = last
                   /\ data_set' = data_set
                   /\ \A c \in Conns :
                         /\ oneshot'[c].state = "sent"
                               => oneshot[c].state = "sent"
                         /\ conn'[c].written \notin {<<>>, conn[c].written}
                               => oneshot[c].state = "sent"]_vars

C15_LaterCommandsRefused ==
    /\ Fatal
    /\ conn[1].pc = "panicked"
    /\ conn[2].pc = "panicked"
    /\ conn[2].request = SetBar
    /\ conn[3].pc = "panicked"
    /\ data_set = EmptyDataSet

\* C16: a request whose top-level value is no array shuts its connection
\* down at once: no command is handed to the core, no response is sent or
\* written, and the keyspace is as it was.
C16_NonArrayShutDown ==
    /\ [][\A c \in Conns :
            (conn[c].pc = "read" /\ conn'[c].pc # "read"
                /\ conn'[c].request \in NonArrayRequests)
              => /\ conn'[c].pc = "shutdown"
                 /\ conn'[c].written = <<>>
                 /\ rx' = rx
                 /\ oneshot' = oneshot
                 /\ data_set' = data_set
                 /\ last' = last]_vars
    /\ [](\A c \in Conns :
            conn[c].pc = "shutdown"
              => /\ conn[c].written = <<>>
                 /\ oneshot[c].state = "idle"
                 /\ \A i \in 1..Len(rx) : rx[i].conn # c)

C16_BulkStringOnFilledKeyspace ==
    /\ conn[1].pc = "shutdown"
    /\ conn[1].request = RespBulk(Str_foo)
    /\ Str_foo \in DOMAIN data_set
    /\ conn[2].written = WirePong

\* C17: every response the server sends or writes begins with +, $ or *,
\* never with -, on the failure paths as on the others.
C17_NoErrorReply ==
    \A c \in Conns :
        /\ conn[c].written # <<>> => Head(conn[c].written) \in {"+", "$", "*"}
        /\ oneshot[c].state = "sent" /\ oneshot[c].tokens # <<>>
              => Head(oneshot[c].tokens).type \in {"Plus", "Dollar", "Asterisk"}

C17_NullWrittenForArrayKey ==
    /\ last.valid
    /\ IsCommand(last.arguments, Str_get)
    /\ Len(last.arguments) >= 2
    /\ ~is_string(last.arguments[2])
    /\ conn[1].written = WireNull

\* The values a response of `tokens` can be the serialization of: the null
\* bulk string, the simple string or the bulk string whose text the tokens
\* carry, and the arrays the parser makes of them.
OneValueOf(tokens) ==
    {NullBulkString}
      \cup (IF Len(tokens) = 3 THEN {SimpleString(tokens[2].s)} ELSE {})
      \cup (IF Len(tokens) = 5 THEN {BulkString(tokens[4].s)} ELSE {})
      \cup (IF parse_tokens(tokens).tag = "some"
            THEN {parse_tokens(tokens).val} ELSE {})

InCommandTable(arguments) == \E verb \in CommandTable : IsCommand(arguments, verb)

\* C22: every command of the table, with every argument count, is answered
\* with exactly one Protocol Value: its response token sequence is not empty
\* and is the serialization of a single SimpleString, BulkString, Array or
\* NullBulkString.
C22_OneValuePerCommand ==
    (last.valid /\ InCommandTable(last.arguments))
        => /\ last.sent
           /\ last.response # <<>>
           /\ \E v \in OneValueOf(last.response) : to_tokens(v) = last.response

\* The response `tokens` written to a socket and read back by a client that
\* uses the same codec: serialize_tokens, parse_resp_tokens_from_str, then
\* parse_tokens.
ReadBack(tokens) ==
    parse_tokens(parse_resp_tokens_from_str(serialize_tokens(tokens).text))

\* C23: every response of PING, SET, GET, COMMAND, INFO and REPLCONF goes
\* through the codec unchanged: serialized, scanned and parsed again it is a
\* value equal to the response (+PONG, +OK, the empty simple string of
\* COMMAND, the null bulk string, the bulk string of INFO, every stored
\* value returned by GET).
C23_ResponsesRoundTrip ==
    (last.valid /\ last.sent
        /\ \E verb \in CommandTable \ {Str_echo} : IsCommand(last.arguments, verb))
        => /\ ReadBack(last.response).tag = "some"
           /\ to_tokens(ReadBack(last.response).val) = last.response

\* A SET with a string-typed key and a value, executed by its arm to the end.
SetTaken ==
    /\ last.valid
    /\ IsCommand(last.arguments, Str_set)
    /\ Len(last.arguments) >= 3
    /\ is_string(last.arguments[2])

\* The SET carries a string-typed third and a string-typed fourth argument
\* after the verb's key and value, the fourth being the text of an integer.
HasExpiryArguments(arguments) ==
    /\ Len(arguments) >= 5
    /\ is_string(arguments[4])
    /\ is_string(arguments[5])
    /\ ParseI64(arguments[5].s).ok

\* The SET carries no option, or an option with nothing after it.
HasNoExpiryArguments(arguments) ==
    \/ Len(arguments) = 3
    \/ Len(arguments) = 4 /\ is_string(arguments[4])

\* C25: a SET k v whose third and fourth arguments are both string-typed
\* stores k with the expiry (time of the SET) + (fourth argument, in
\* milliseconds), whatever the text of the third argument; a SET with no
\* third argument, or with a third and no fourth, stores k with no expiry;
\* the response is +OK in all these cases.
C25_ExpiryOfSet ==
    /\ (SetTaken /\ HasExpiryArguments(last.arguments))
         => /\ last.response = to_tokens(SimpleString(Str_OK))
            /\ last.arguments[2].s \in DOMAIN last.arm
            /\ last.arm[last.arguments[2].s] =
                  [parser_value |-> last.arguments[3],
                   expiry_in_nanoseconds |->
                       Some(last.now
                              + ParseI64(last.arguments[5].s).n * NanosPerMilli)]
    /\ (SetTaken /\ HasNoExpiryArguments(last.arguments))
         => /\ last.response = to_tokens(SimpleString(Str_OK))
            /\ last.arguments[2].s \in DOMAIN last.arm
            /\ last.arm[last.arguments[2].s] =
                  [parser_value |-> last.arguments[3],
                   expiry_in_nanoseconds |-> None]

\* A SET foo bar EX 1 was executed after the clock had moved on: foo expires
\* one millisecond after that SET.
C25_SetWithEXLate ==
    /\ SetTaken
    /\ HasExpiryArguments(last.arguments)
    /\ last.arguments[4].s = Str_EX
    /\ last.now > 0
    /\ last.arm[Str_foo].expiry_in_nanoseconds = Some(last.now + NanosPerMilli)

\* C26: a command other than SET never creates an entry and never changes
\* the value or the expiry of one: every key present after it was present
\* before with the same entry, and a key that has disappeared had an expiry
\* that has passed.
C26_OnlySetWrites ==
    [][(CommandTaken /\ ~IsCommand(Head(rx).arguments, Str_set))
          => /\ \A k \in DOMAIN data_set' :
                    k \in DOMAIN data_set /\ data_set'[k] = data_set[k]
             /\ \A k \in DOMAIN data_set \ DOMAIN data_set' :
                    /\ data_set[k].expiry_in_nanoseconds.some
                    /\ clock' > data_set[k].expiry_in_nanoseconds.val]_vars

\* An ECHO was executed on a keyspace that holds foo with an expiry, and foo
\* is there afterwards with the entry it had.
C26_EntryKeptByEcho ==
    /\ last.valid
    /\ IsCommand(last.arguments, Str_echo)
    /\ Str_foo \in DOMAIN last.pre
    /\ last.pre[Str_foo].expiry_in_nanoseconds.some
    /\ Str_foo \in DOMAIN data_set
    /\ data_set[Str_foo] = last.pre[Str_foo]

\* C27: a SET of a key that exists replaces the whole entry: after SET k v1
\* PX n, a SET k v2 leaves k with the value v2 and no expiry; after SET k v1,
\* a SET k v2 PX n leaves k expiring n milliseconds after the second SET.
C27_SetReplacesEntry ==
    (SetTaken /\ last.arguments[2].s \in DOMAIN last.pre)
        => LET old == last.pre[last.arguments[2].s]
               new == last.arm[last.arguments[2].s]
           IN  /\ (old.expiry_in_nanoseconds.some /\ Len(last.arguments) = 3)
                    => new = DataValue(last.arguments[3])
               /\ (~old.expiry_in_nanoseconds.some
                        /\ HasExpiryArguments(last.arguments))
                    => /\ new.parser_value = last.arguments[3]
                       /\ new.expiry_in_nanoseconds.some
                       /\ new.expiry_in_nanoseconds.val - last.now =
                             ParseI64(last.arguments[5].s).n * NanosPerMilli

\* SET foo bar was executed on a keyspace where foo held another value with
\* an expiry: foo now holds bar and has none.
C27_ExpiryDroppedByPlainSet ==
    /\ SetTaken
    /\ Len(last.arguments) = 3
    /\ Str_foo \in DOMAIN last.pre
    /\ last.pre[Str_foo].expiry_in_nanoseconds.some
    /\ last.pre[Str_foo].parser_value # last.arguments[3]
    /\ data_set[Str_foo] = DataValue(BulkString(Str_bar))

\* The tokens of the bulk strings that carry the texts of `values`, one
\* after the other.
RECURSIVE BulkStringsOf(_)
BulkStringsOf(values) ==
    IF values = <<>> THEN <<>>
    ELSE <<Token("Dollar"), NumberToken(Len(Head(values).s)), Separator,
           StringToken(Head(values).s), Separator>>
             \o BulkStringsOf(Tail(values))

\* C28: ECHO with n >= 1 string-typed arguments responds with n bulk
\* strings in the order of the arguments, each carrying the text of its
\* argument, and neither reads nor changes the keyspace.
C28_EchoAllArguments ==
    (/\ last.valid
     /\ IsCommand(last.arguments, Str_echo)
     /\ Len(last.arguments) >= 2
     /\ \A i \in 2..Len(last.arguments) : is_string(last.arguments[i]))
        => /\ last.sent
           /\ last.response = BulkStringsOf(Tail(last.arguments))
           /\ last.arm = last.pre

\* ECHO hello foo was executed on a keyspace that holds foo.
C28_EchoTwoOnFilledKeyspace ==
    /\ last.valid
    /\ IsCommand(last.arguments, Str_echo)
    /\ Len(last.arguments) = 3
    /\ Str_foo \in DOMAIN last.pre
    /\ last.response = BulkStringsOf(<<BulkString(Str_hello), BulkString(Str_foo)>>)

\* C21: the placeholder snapshot is written on a connection if and only if
\* the command just executed is PSYNC, after the +FULLRESYNC <replid>
\* <offset> response of that command and before the response to any later
\* command of the connection: on the socket, every snapshot comes right
\* after the response of a PSYNC, and the response of a PSYNC is followed
\* by nothing but its snapshot.
C21_SnapshotFollowsPsync ==
    \A c \in Conns :
        LET wire == conn[c].wire IN
        \A i \in 1..Len(wire) :
            /\ wire[i].what = "snapshot"
                 => /\ i > 1
                    /\ wire[i - 1].what = "response"
                    /\ wire[i - 1].arguments = wire[i].arguments
                    /\ IsCommand(wire[i].arguments, Str_psync)
                    /\ wire[i].bytes = to_rdb_bytes
            /\ (wire[i].what = "response"
                    /\ IsCommand(wire[i].arguments, Str_psync))
                 => /\ wire[i].bytes =
                          <<"+">> \o Str_FULLRESYNC \o <<" ">> \o master_replid
                              \o <<" ", "0", CR, LF>>
                    /\ IF i = Len(wire) THEN conn[c].pc = "rdb"
                       ELSE /\ wire[i + 1].what = "snapshot"
                            /\ wire[i + 1].arguments = wire[i].arguments

\* A connection has sent PSYNC and then SET foo bar: its socket carries the
\* +FULLRESYNC response, the snapshot and then +OK.
C21_SetAnsweredAfterSnapshot ==
    \E c \in Conns :
        /\ Len(conn[c].wire) = 3
        /\ conn[c].wire[2].what = "snapshot"
        /\ IsCommand(conn[c].wire[3].arguments, Str_set)
        /\ conn[c].wire[3].bytes = WireOK

\* C24: the loop of process_command keeps serving after every command it
\* has answered, whatever the outcome: its task is still running, so that
\* the next command of any connection is received, executed and answered.
C24_LoopKeepsServing == (last.valid /\ last.sent) => core = "running"

\* -------------------------------------------------------------- the codec

\* Bounds of the values and texts the codec functions are applied to.
MaxArrayLen == 2
MaxDeclared == 4

Str_007 == <<"0", "0", "7">>

\* The Protocol Values that can be constructed: the strings and the null
\* bulk string, arrays of them, and arrays that hold arrays.
Leaves ==
    {SimpleString(s) : s \in {<<>>, Str_foo}}
        \cup {BulkString(s) : s \in {<<>>, Str_foo}}
        \cup {NullBulkString}

Nested == {Array(<<>>), Array(<<SimpleString(Str_foo)>>)}

SeqsUpTo(S, n) == UNION {[1..m -> S] : m \in 0..n}

Values ==
    Leaves \cup {Array(arr) : arr \in SeqsUpTo(Leaves \cup Nested, MaxArrayLen)}

\* The bulk strings a peer can put on the wire: any declared length before
\* any payload.
Payloads == {<<>>, Str_foo, Str_hello, Str_007, Str_minus1, <<"7">>}

BulkFrame(declared, payload) ==
    <<"$">> \o NatToText(declared) \o <<CR, LF>> \o payload \o <<CR, LF>>

NoOutput == [ok |-> FALSE, text |-> <<>>]

CodecState(stage, origin) ==
    [stage |-> stage, origin |-> origin, value |-> NullBulkString,
     declared |-> 0, payload |-> <<>>, text |-> <<>>, tokens |-> <<>>,
     parsed |-> ParseNone, out |-> NoOutput]

\* Token sequences that are the tokens of no value: the empty one, those
\* that start with a token other than Plus, Dollar and Asterisk, arrays of
\* a negative declared length, and arrays with an element that starts with
\* such a token, first or after a well-formed element.
OtherTokens ==
    {Token(SigilName(c)) : c \in Sigils \ {"+", "$", "*"}}
        \cup {StringToken(Str_foo), NumberToken(7), Separator}

OtherStarts == {<<t, StringToken(Str_foo), Separator>> : t \in OtherTokens}

ArrayHead(length) == <<Token("Asterisk"), NumberToken(length), Separator>>

Malformed ==
    {<<>>}
        \cup OtherStarts
        \cup {ArrayHead(length) \o rest :
                 length \in {-1, -2},
                 rest \in {<<>>, to_tokens(SimpleString(Str_foo))}}
        \cup {ArrayHead(1) \o bad : bad \in OtherStarts}
        \cup {ArrayHead(2) \o to_tokens(BulkString(Str_foo)) \o bad :
                 bad \in OtherStarts}

\* Simple strings a peer can put on the wire, the last one without the
\* \r\n that ends it.
Lines == {WireOK, WirePong, <<"+">> \o Str_foo}

\* A value is constructed, a bulk string arrives, an empty array arrives, a
\* simple string arrives, or tokens that are no value are handed to
\* parse_tokens.
InitCodec ==
    \/ \E tokens \in Malformed :
          codec = [CodecState("tokens", "malformed") EXCEPT !.tokens = tokens]
    \/ \E v \in Values :
          codec = [CodecState("value", "value") EXCEPT !.value = v]
    \/ \E declared \in 0..MaxDeclared, payload \in Payloads :
          codec = [CodecState("text", "bulk") EXCEPT
                      !.declared = declared, !.payload = payload,
                      !.text = BulkFrame(declared, payload)]
    \/ codec = [CodecState("text", "array") EXCEPT !.text = WireEmptyArray]
    \/ \E text \in Lines :
          codec = [CodecState("text", "line") EXCEPT !.text = text]

ToTokens ==
    /\ codec.stage = "value"
    /\ codec' = [codec EXCEPT !.stage = "tokens",
                              !.tokens = to_tokens(codec.value)]
    /\ UNCHANGED <<server_vars, script, replica_vars, lock_vars>>

ScanText ==
    /\ codec.stage = "text"
    /\ codec' = [codec EXCEPT !.stage = "tokens",
                              !.tokens = parse_resp_tokens_from_str(codec.text)]
    /\ UNCHANGED <<server_vars, script, replica_vars, lock_vars>>

ParseTokens ==
    /\ codec.stage = "tokens"
    /\ codec' = [codec EXCEPT !.stage = "parsed",
                              !.parsed = parse_tokens(codec.tokens)]
    /\ UNCHANGED <<server_vars, script, replica_vars, lock_vars>>

\* The parsed value is sent back: to_tokens, then serialize_tokens.
Reserialize ==
    /\ codec.stage = "parsed"
    /\ codec.parsed.tag = "some"
    /\ codec' = [codec EXCEPT !.stage = "done",
                              !.out = serialize_tokens(to_tokens(codec.parsed.val))]
    /\ UNCHANGED <<server_vars, script, replica_vars, lock_vars>>

InitCodecSpec ==
    /\ InitServer
    /\ script = [c \in Conns |-> <<>>]
    /\ InitCodec

NextCodec == ToTokens \/ ScanText \/ ParseTokens \/ Reserialize

SpecCodec == InitCodecSpec /\ [][NextCodec]_vars

\* C5: for every constructible value v, parse_tokens(v.to_tokens()) returns
\* a value equal to v.
C5_RoundTrip ==
    (codec.origin = "value" /\ codec.stage \in {"parsed", "done"})
        => codec.parsed = ParseSome(codec.value)

\* C6: a bulk string whose declared length differs from the length of the
\* payload rebuilt from its tokens yields no value, and every BulkString the
\* parser returns has a payload as long as the declared length.
C6_BulkLength ==
    (codec.origin = "bulk" /\ codec.stage \in {"parsed", "done"})
        => LET rebuilt == RebuildPayload(
                              SubSeq(codec.tokens, 4, Len(codec.tokens) - 1))
           IN  /\ Len(rebuilt) # codec.declared => codec.parsed.tag # "some"
               /\ codec.parsed.tag = "some"
                    => /\ codec.parsed.val.kind = "BulkString"
                       /\ Len(codec.parsed.val.s) = codec.declared

C6_MismatchParsed ==
    /\ codec.origin = "bulk"
    /\ codec.stage = "parsed"
    /\ codec.payload = Str_foo
    /\ codec.declared = 2
    /\ codec.parsed = ParseNone

\* C7: an array of declared length 0 parses to an Array with no elements,
\* and that value serializes to *0\r\n.
C7_EmptyArray ==
    codec.origin = "array"
        => /\ codec.stage \in {"parsed", "done"}
                => codec.parsed = ParseSome(Array(<<>>))
           /\ codec.stage = "done"
                => codec.out = [ok |-> TRUE, text |-> WireEmptyArray]

C7_EmptyArraySent ==
    /\ codec.origin = "array"
    /\ codec.stage = "done"
    /\ codec.out.text = WireEmptyArray

\* The value is an array of at least one element, its elements being simple
\* strings, bulk strings and arrays.
IsMixedArray(v) ==
    /\ v.kind = "Array"
    /\ Len(v.arr) > 0
    /\ \A k \in 1..Len(v.arr) : v.arr[k] # NullBulkString

\* C29: the tokens of an array of declared count n > 0 parse to exactly n
\* elements, the k-th parsed element being the k-th serialized one, for
\* every mix of simple strings, bulk strings and nested arrays, a nested
\* array of length 0 followed by further elements included.
C29_ArrayElementsInOrder ==
    (/\ codec.origin = "value"
     /\ codec.stage \in {"parsed", "done"}
     /\ IsMixedArray(codec.value))
        => /\ codec.parsed.tag = "some"
           /\ codec.parsed.val.kind = "Array"
           /\ Len(codec.parsed.val.arr) = Len(codec.value.arr)
           /\ \A k \in 1..Len(codec.value.arr) :
                  codec.parsed.val.arr[k] = codec.value.arr[k]

\* C30: parse_tokens reports a failure as none, never as a value: for an
\* array of negative declared length, for an array with an element whose
\* first token is none of Plus, Dollar and Asterisk, for the empty token
\* sequence and for one that starts with any other token.
C30_FailuresAreNone ==
    (codec.origin = "malformed" /\ codec.stage \in {"parsed", "done"})
        => codec.parsed = ParseNone

\* The tokens of an array of declared length -1 were parsed.
C30_NegativeLengthParsed ==
    /\ codec.origin = "malformed"
    /\ codec.stage = "parsed"
    /\ codec.tokens = ArrayHead(-1)
    /\ codec.parsed = ParseNone

\* C31: for every payload p without \r\n, sigils and digits included,
\* scanning and parsing $<length of p>\r\n<p>\r\n yields BulkString(p): the
\* payload is rebuilt from all the tokens between the separator of the
\* length line and the next separator.
C31_PayloadRebuilt ==
    (/\ codec.origin = "bulk"
     /\ codec.stage \in {"parsed", "done"}
     /\ codec.declared = Len(codec.payload))
        => codec.parsed = ParseSome(BulkString(codec.payload))

\* C32: the scanner is lossless: for every input text, serialize_tokens of
\* the tokens it scans is the input again, no character dropped, added or
\* changed.
C32_ScanLossless ==
    (codec.origin \in {"bulk", "array", "line"}
        /\ codec.stage \in {"tokens", "parsed", "done"})
        => serialize_tokens(codec.tokens) = [ok |-> TRUE, text |-> codec.text]

====
